---- MODULE Spec2Model ----
(***************************************************************************)
(* clauseWise backend (src/backend/main.py): the rule-based legal-text     *)
(* analysis functions and the endpoints that call them.                    *)
(*                                                                         *)
(* Texts are strings; the string operations of Python that the code uses   *)
(* (lower, strip, split, `in`, len, slicing) are defined below on strings  *)
(* with Len, SubSeq and \o.  A float score count/len(keywords) is kept as  *)
(* the exact fraction [num, den]; fractions are compared by cross          *)
(* multiplication, which agrees with the float comparison for the small    *)
(* numerators and denominators (<= 6) of the code.                         *)
(***************************************************************************)
EXTENDS Integers, Sequences, FiniteSets, TLC

VARIABLES
    text,                 \* the text handed to the function or endpoint in flight
    result,               \* what the last call returned
    processed_documents,  \* main.py:31, the module-level registry
    index,                \* main.py:56, the Pinecone index object, "None", or "unset"
    vectors,              \* the vectors stored in the Pinecone index
    classified            \* history: what classify_document_type has returned so far

\* the state the four analysis functions neither read nor write
server == <<processed_documents, index, vectors, classified>>

vars == <<text, result, processed_documents, index, vectors, classified>>

\* main.py:168, a sentence longer than this is split at conjunctions
LongSentence == 100

\* main.py:272, a paragraph must be longer than this to be a clause
ShortParagraph == 50

(***************************************************************************)
(* Python string operations                                                *)
(***************************************************************************)

Char(s, i) == SubSeq(s, i, i)

UpperChars == "ABCDEFGHIJKLMNOPQRSTUVWXYZ"
LowerChars == "abcdefghijklmnopqrstuvwxyz"
DigitChars == "0123456789"

\* the characters of a string, as a set
CharsOf(chars) == {Char(chars, i) : i \in 1..Len(chars)}

UpperSet == CharsOf(UpperChars)
LowerSet == CharsOf(LowerChars)
DigitSet == CharsOf(DigitChars)

\* str.lower() on the letters A-Z
LowerOf == [c \in UpperSet |->
              Char(LowerChars, CHOOSE i \in 1..Len(UpperChars) : Char(UpperChars, i) = c)]

\* str.lower() of one character
LowerChar(c) == IF c \in UpperSet THEN LowerOf[c] ELSE c

\* str.lower(): every character lowered, the length unchanged
RECURSIVE Lower(_)
Lower(s) ==
    IF Len(s) = 0 THEN ""
    ELSE IF Len(s) = 1 THEN LowerChar(s)
    ELSE LET h == Len(s) \div 2
         IN  Lower(SubSeq(s, 1, h)) \o Lower(SubSeq(s, h + 1, Len(s)))

\* s[i:] starts with k
StartsAt(k, s, i) == i >= 1 /\ i + Len(k) - 1 <= Len(s) /\ SubSeq(s, i, i + Len(k) - 1) = k

\* `k in s` on strings: k occurs as a substring of s
Contains(k, s) == \E i \in 1..(Len(s) - Len(k) + 1) : StartsAt(k, s, i)

\* the characters str.strip() removes
IsSpace(c) == c \in {" ", "\t", "\n", "\r", "\f"}

\* str.strip(): leading and trailing whitespace removed
Strip(s) ==
    LET keep == {i \in 1..Len(s) : ~IsSpace(Char(s, i))}
    IN  IF keep = {} THEN ""
        ELSE LET lo == CHOOSE i \in keep : \A j \in keep : i <= j
                 hi == CHOOSE i \in keep : \A j \in keep : j <= i
             IN  SubSeq(s, lo, hi)

\* str.split(sep): cut at each occurrence of sep, scanning left to right
RECURSIVE Split(_, _)
Split(s, sep) ==
    LET hits == {i \in 1..(Len(s) - Len(sep) + 1) : StartsAt(sep, s, i)}
    IN  IF hits = {} THEN <<s>>
        ELSE LET i == CHOOSE h \in hits : \A g \in hits : h <= g
             IN  <<SubSeq(s, 1, i - 1)>> \o Split(SubSeq(s, i + Len(sep), Len(s)), sep)

\* s.endswith(k)
EndsWith(s, k) == Len(k) <= Len(s) /\ SubSeq(s, Len(s) - Len(k) + 1, Len(s)) = k

\* c repeated n times
RECURSIVE Repeat(_, _)
Repeat(c, n) ==
    IF n <= 0 THEN ""
    ELSE IF n = 1 THEN c
    ELSE Repeat(c, n \div 2) \o Repeat(c, n - (n \div 2))

\* sep.join(parts[k..])
RECURSIVE Join(_, _, _)
Join(sep, parts, k) ==
    IF k > Len(parts) THEN ""
    ELSE IF k = Len(parts) THEN parts[k]
    ELSE parts[k] \o sep \o Join(sep, parts, k + 1)

\* the strings of a sequence concatenated
RECURSIVE Concat(_)
Concat(parts) == IF parts = <<>> THEN "" ELSE Head(parts) \o Concat(Tail(parts))

\* all sequences over S of length at most n
SeqsUpTo(S, n) == UNION {[1..m -> S] : m \in 0..n}

(***************************************************************************)
(* Python `re`: the part of the regular-expression language the patterns   *)
(* of main.py use.  A pattern is a tree; Ends gives the positions at which *)
(* a match that starts at position i can end, in the order in which the    *)
(* backtracking matcher of `re` tries them (greedy repetitions longest     *)
(* first, alternatives left to right), so the first one is the match `re`  *)
(* reports.  A position is the index of the next character to read.        *)
(***************************************************************************)

Lit(str) == [kind |-> "lit", str |-> str]                      \* literal text
Cls(c, lo, hi) == [kind |-> "cls", cls |-> c, min |-> lo, max |-> hi]  \* [c]{lo,hi}; hi = -1: no limit
WordB == [kind |-> "b"]                                        \* \b
SeqOf(parts) == [kind |-> "seq", parts |-> parts]              \* concatenation
Alt(alts) == [kind |-> "alt", alts |-> alts]                   \* (?:a|b|...)
Rep(sub, lo, hi) == [kind |-> "rep", sub |-> sub, min |-> lo, max |-> hi]  \* (?:sub){lo,hi}, greedy

\* \w on the characters of the model's texts
IsWord(c) == c \in UpperSet \/ c \in LowerSet \/ c \in DigitSet \/ c = "_"

\* \s
IsReSpace(c) == c \in {" ", "\t", "\n", "\r", "\f"}

\* the character classes of the patterns
ClassHas(cls, c) ==
    CASE cls = "digit" -> c \in DigitSet            \* \d
      [] cls = "space" -> IsReSpace(c)                      \* \s
      [] cls = "word" -> IsWord(c)                          \* \w
      [] cls = "upper" -> c \in UpperSet            \* [A-Z]
      [] cls = "lower" -> c \in LowerSet            \* [a-z]
      [] cls = "notdot" -> c # "."                          \* [^.]
      [] cls = "slashdash" -> c \in {"/", "-"}              \* [/-]
      [] cls = "digitcomma" -> c \in DigitSet \/ c = ","   \* [\d,]

\* \b at position i: exactly one of the characters before and at i is a word character
AtWordBoundary(s, i) ==
    LET before == i > 1 /\ i - 1 <= Len(s) /\ IsWord(Char(s, i - 1))
        after == i >= 1 /\ i <= Len(s) /\ IsWord(Char(s, i))
    IN  before # after

\* how many characters of class cls follow from position i
RunLen(cls, s, i) ==
    LET stop == {j \in i..(Len(s) + 1) : j = Len(s) + 1 \/ ~ClassHas(cls, Char(s, j))}
    IN  (CHOOSE j \in stop : \A k \in stop : j <= k) - i

\* the literal at position i, letters compared without case under IGNORECASE
LitAt(str, s, i, ic) ==
    /\ i + Len(str) - 1 <= Len(s)
    /\ IF ic
       THEN /\ LowerChar(Char(s, i)) = LowerChar(Char(str, 1))
            /\ Lower(SubSeq(s, i, i + Len(str) - 1)) = Lower(str)
       ELSE SubSeq(s, i, i + Len(str) - 1) = str

\* the sequences seqs[lo..hi] concatenated
RECURSIVE Flatten(_, _, _)
Flatten(seqs, lo, hi) ==
    IF lo > hi THEN <<>>
    ELSE IF lo = hi THEN seqs[lo]
    ELSE LET mid == (lo + hi) \div 2
         IN  Flatten(seqs, lo, mid) \o Flatten(seqs, mid + 1, hi)

RECURSIVE Ends(_, _, _, _)
RECURSIVE SeqEnds(_, _, _, _, _)
RECURSIVE RepEnds(_, _, _, _, _)

Ends(re, s, i, ic) ==
    CASE re.kind = "lit" -> IF LitAt(re.str, s, i, ic) THEN <<i + Len(re.str)>> ELSE <<>>
      [] re.kind = "cls" ->
            LET run == RunLen(re.cls, s, i)
                most == IF re.max >= 0 /\ re.max < run THEN re.max ELSE run
            IN  IF most < re.min THEN <<>>
                ELSE [n \in 1..(most - re.min + 1) |-> i + most - n + 1]
      [] re.kind = "b" -> IF AtWordBoundary(s, i) THEN <<i>> ELSE <<>>
      [] re.kind = "seq" -> SeqEnds(re.parts, 1, s, i, ic)
      [] re.kind = "alt" ->
            Flatten([a \in 1..Len(re.alts) |-> Ends(re.alts[a], s, i, ic)], 1, Len(re.alts))
      [] re.kind = "rep" -> RepEnds(re, 0, s, i, ic)

\* parts[k..] matched from position i
SeqEnds(parts, k, s, i, ic) ==
    IF k > Len(parts) THEN <<i>>
    ELSE LET first == Ends(parts[k], s, i, ic)
         IN  IF k = Len(parts) THEN first
             ELSE Flatten([n \in 1..Len(first) |-> SeqEnds(parts, k + 1, s, first[n], ic)],
                          1, Len(first))

\* a greedy repetition that has matched `count` times and stands at position i:
\* one more round first, then stopping here
RepEnds(re, count, s, i, ic) ==
    LET more == IF re.max >= 0 /\ count >= re.max THEN <<>>
                ELSE LET once == Ends(re.sub, s, i, ic)
                     IN  Flatten([n \in 1..Len(once) |->
                                     IF once[n] > i THEN RepEnds(re, count + 1, s, once[n], ic)
                                     ELSE <<>>], 1, Len(once))
    IN  more \o (IF count >= re.min THEN <<i>> ELSE <<>>)

\* the first of the positions ends, 0 when there is none
FirstEnd(ends) == IF ends = <<>> THEN 0 ELSE ends[1]

\* re.match at position i: the end of the match, 0 when there is none
MatchEnd(re, s, i, ic) == FirstEnd(Ends(re, s, i, ic))

\* re.match at every position of s
MatchEnds(re, s, ic) == [i \in 1..Len(s) |-> MatchEnd(re, s, i, ic)]

\* the (start, end) spans re.finditer yields, given the match end at every
\* position: leftmost match first, the scan going on where a match ended.
\* No pattern of main.py matches the empty string.
RECURSIVE SpansFrom(_, _)
SpansFrom(ends, pos) ==
    LET left == {i \in pos..Len(ends) : ends[i] > i}
    IN  IF left = {} THEN <<>>
        ELSE LET i == CHOOSE a \in left : \A b \in left : a <= b
             IN  <<[start |-> i, end |-> ends[i]]>> \o SpansFrom(ends, ends[i])

Spans(re, s, ic) == SpansFrom(MatchEnds(re, s, ic), 1)

\* the texts of s at the spans sp
Matched(sp, s) == [n \in 1..Len(sp) |-> SubSeq(s, sp[n].start, sp[n].end - 1)]

\* the texts of s between the spans sp
Between(sp, s) ==
    [n \in 1..(Len(sp) + 1) |->
        SubSeq(s, IF n = 1 THEN 1 ELSE sp[n - 1].end,
               IF n > Len(sp) THEN Len(s) ELSE sp[n].start - 1)]

\* re.findall(pattern, s): the matched texts (no pattern has a capturing group)
FindAll(re, s, ic) == Matched(Spans(re, s, ic), s)

\* re.search(pattern, s) finds a match
Search(re, s, ic) == \E i \in 1..Len(s) : MatchEnd(re, s, i, ic) # 0

\* re.split(pattern, s): the texts between the matches
ReSplit(re, s, ic) == Between(Spans(re, s, ic), s)

\* re.sub(pattern, repl, s): every match replaced by repl
ReSub(re, repl, s, ic) == Join(repl, ReSplit(re, s, ic), 1)

\* '\bphrase\b'
WordPhrase(phrase) == SeqOf(<<WordB, Lit(phrase), WordB>>)

\* the phrase occurs in s, letters compared without case; where it does not,
\* '\bphrase\b' has no match under IGNORECASE
PhraseOccurs(phrase, s) == \E i \in 1..(Len(s) - Len(phrase) + 1) : LitAt(phrase, s, i, TRUE)

\* mutant: re.sub without flags=re.IGNORECASE
SubPhrase_CaseSensitive(phrase, repl, s) ==
    IF Contains(phrase, s) THEN ReSub(WordPhrase(phrase), repl, s, FALSE) ELSE s

\* re.sub(r'\bphrase\b', repl, s, flags=re.IGNORECASE)
SubPhrase(phrase, repl, s) ==
    IF PhraseOccurs(phrase, s) THEN ReSub(WordPhrase(phrase), repl, s, TRUE) ELSE s

\* re.search(r'\b' + re.escape(phrase) + r'\b', s, re.IGNORECASE) finds a match
SearchPhrase(phrase, s) == PhraseOccurs(phrase, s) /\ Search(WordPhrase(phrase), s, TRUE)

(***************************************************************************)
(* simplify_clause, main.py:128-176                                        *)
(***************************************************************************)

\* main.py:133-157, in definition (= dict iteration) order; each key is
\* r'\b<legal>\b'
simplification_rules == <<
    [legal |-> "heretofore", simple |-> "before this"],
    [legal |-> "hereinafter", simple |-> "after this"],
    [legal |-> "whereas", simple |-> "since"],
    [legal |-> "therefore", simple |-> "so"],
    [legal |-> "notwithstanding", simple |-> "despite"],
    [legal |-> "forthwith", simple |-> "immediately"],
    [legal |-> "pursuant to", simple |-> "according to"],
    [legal |-> "in consideration of", simple |-> "in exchange for"],
    [legal |-> "shall", simple |-> "must"],
    [legal |-> "may", simple |-> "can"],
    [legal |-> "indemnify", simple |-> "protect from losses"],
    [legal |-> "holdco", simple |-> "holding company"],
    [legal |-> "force majeure", simple |-> "unforeseeable circumstances"],
    [legal |-> "quid pro quo", simple |-> "something for something"],
    [legal |-> "per annum", simple |-> "per year"],
    [legal |-> "per se", simple |-> "by itself"],
    [legal |-> "pro rata", simple |-> "proportionally"],
    [legal |-> "ad hoc", simple |-> "for this specific purpose"],
    [legal |-> "bona fide", simple |-> "genuine"],
    [legal |-> "in perpetuity", simple |-> "forever"],
    [legal |-> "null and void", simple |-> "invalid"],
    [legal |-> "party of the first part", simple |-> "first party"],
    [legal |-> "party of the second part", simple |-> "second party"]
>>

\* main.py:159-161, the text after rules[1..k] were applied one after the other
RECURSIVE ApplyRules(_, _, _)
ApplyRules(rules, k, clause_text) ==
    IF k = 0 THEN clause_text
    ELSE SubPhrase(rules[k].legal, rules[k].simple, ApplyRules(rules, k - 1, clause_text))

Substitute(clause_text) ==
    ApplyRules(simplification_rules, Len(simplification_rules), clause_text)

\* main.py:170, r',\s*(?:and|or|but|however|moreover|furthermore)\s+', no flags
ConjunctionSplit ==
    SeqOf(<<Lit(","), Cls("space", 0, -1),
            Alt(<<Lit("and"), Lit("or"), Lit("but"), Lit("however"), Lit("moreover"),
                  Lit("furthermore")>>),
            Cls("space", 1, -1)>>)

\* the stripped, non-empty members of parts, in order
RECURSIVE StrippedNonEmpty(_, _)
StrippedNonEmpty(parts, k) ==
    IF k > Len(parts) THEN <<>>
    ELSE (IF Strip(parts[k]) # "" THEN <<Strip(parts[k])>> ELSE <<>>)
         \o StrippedNonEmpty(parts, k + 1)

\* main.py:168-174, what one sentence adds to simplified_sentences
SentenceFragments(sentence) ==
    IF Len(Strip(sentence)) > LongSentence
    THEN StrippedNonEmpty(ReSplit(ConjunctionSplit, sentence, FALSE), 1)
    ELSE IF Strip(sentence) # "" THEN <<Strip(sentence)>> ELSE <<>>

\* main.py:164-174, simplified_sentences
SimplifiedSentences(simplified) ==
    LET sentences == Split(simplified, ".")
    IN  Flatten([n \in 1..Len(sentences) |-> SentenceFragments(sentences[n])],
                1, Len(sentences))

\* mutant: the final period appended whatever the substituted text ends with
JoinSentences_AlwaysPeriod(simplified) ==
    Join(". ", SimplifiedSentences(simplified), 1) \o "."

\* main.py:176, the return value, given the text after substitution
JoinSentences(simplified) ==
    Join(". ", SimplifiedSentences(simplified), 1)
        \o (IF ~EndsWith(simplified, ".") THEN "." ELSE "")

\* main.py:128-176
simplify_clause(clause_text) == JoinSentences(Substitute(clause_text))

(***************************************************************************)
(* extract_named_entities, main.py:178-238                                 *)
(***************************************************************************)

Months ==
    Alt(<<Lit("January"), Lit("February"), Lit("March"), Lit("April"), Lit("May"),
          Lit("June"), Lit("July"), Lit("August"), Lit("September"), Lit("October"),
          Lit("November"), Lit("December")>>)

\* main.py:193-197
date_patterns == <<
    SeqOf(<<WordB, Cls("digit", 1, 2), Cls("slashdash", 1, 1), Cls("digit", 1, 2),
            Cls("slashdash", 1, 1), Cls("digit", 2, 4), WordB>>),
    SeqOf(<<WordB, Cls("digit", 1, 2), Cls("space", 1, -1), Months, Cls("space", 1, -1),
            Cls("digit", 2, 4), WordB>>),
    SeqOf(<<WordB, Months, Cls("space", 1, -1), Cls("digit", 1, 2), Rep(Lit(","), 0, 1),
            Cls("space", 1, -1), Cls("digit", 2, 4), WordB>>)
>>

\* (?:\.\d{2})?
Cents == Rep(SeqOf(<<Lit("."), Cls("digit", 2, 2)>>), 0, 1)

\* mutant: the first pattern without the optional cents, r'\$[\d,]+'
money_patterns_NoCents == <<
    SeqOf(<<Lit("$"), Cls("digitcomma", 1, -1)>>),
    SeqOf(<<WordB, Cls("digit", 1, -1), Cls("space", 0, -1),
            Alt(<<SeqOf(<<Lit("dollar"), Rep(Lit("s"), 0, 1)>>), Lit("USD"),
                  SeqOf(<<Lit("cent"), Rep(Lit("s"), 0, 1)>>)>>),
            WordB>>),
    SeqOf(<<WordB, Alt(<<Lit("USD"), Lit("EUR"), Lit("GBP"), Lit("CAD")>>),
            Cls("space", 0, -1), Cls("digitcomma", 1, -1), Cents, WordB>>)
>>

\* main.py:202-206
money_patterns == <<
    SeqOf(<<Lit("$"), Cls("digitcomma", 1, -1), Cents>>),
    SeqOf(<<WordB, Cls("digit", 1, -1), Cls("space", 0, -1),
            Alt(<<SeqOf(<<Lit("dollar"), Rep(Lit("s"), 0, 1)>>), Lit("USD"),
                  SeqOf(<<Lit("cent"), Rep(Lit("s"), 0, 1)>>)>>),
            WordB>>),
    SeqOf(<<WordB, Alt(<<Lit("USD"), Lit("EUR"), Lit("GBP"), Lit("CAD")>>),
            Cls("space", 0, -1), Cls("digitcomma", 1, -1), Cents, WordB>>)
>>

\* main.py:211-216
legal_terms == <<
    "contract", "agreement", "clause", "provision", "warranty", "indemnification",
    "liability", "damages", "breach", "termination", "confidentiality", "non-disclosure",
    "intellectual property", "copyright", "trademark", "patent", "trade secret",
    "force majeure", "arbitration", "jurisdiction", "governing law", "amendment"
>>

\* [A-Z][a-z]+(?:\s+[A-Z][a-z]+)*
CapitalizedWords ==
    SeqOf(<<Cls("upper", 1, 1), Cls("lower", 1, -1),
            Rep(SeqOf(<<Cls("space", 1, -1), Cls("upper", 1, 1), Cls("lower", 1, -1)>>), 0, -1)>>)

CorporateSuffix ==
    Alt(<<Lit("Inc"), Lit("LLC"), Lit("Corp"), Lit("Corporation"), Lit("Company"),
          Lit("Ltd"), Lit("Limited")>>)

\* main.py:222-225
org_patterns == <<
    SeqOf(<<WordB, CapitalizedWords, Cls("space", 1, -1), CorporateSuffix, WordB>>),
    SeqOf(<<WordB, CorporateSuffix, Cls("space", 1, -1), CapitalizedWords, WordB>>)
>>

\* mutant: the span ends with the word after the phrase, \w+ for [^.]+
obligation_patterns_OneWord == <<
    SeqOf(<<WordB, Alt(<<Lit("shall"), Lit("must"), Lit("will"), Lit("agree to"),
                         Lit("undertake to"), Lit("covenant to")>>),
            Cls("space", 1, -1), Cls("word", 1, -1)>>),
    SeqOf(<<WordB, Alt(<<Lit("responsible for"), Lit("liable for"), Lit("obligated to")>>),
            Cls("space", 1, -1), Cls("word", 1, -1)>>),
    SeqOf(<<WordB, Lit("party"), Cls("space", 1, -1),
            Alt(<<Lit("A"), Lit("B"), Cls("word", 1, -1)>>), Cls("space", 1, -1),
            Alt(<<Lit("shall"), Lit("must"), Lit("will")>>),
            Cls("space", 1, -1), Cls("word", 1, -1)>>)
>>

\* main.py:230-234
obligation_patterns == <<
    SeqOf(<<WordB, Alt(<<Lit("shall"), Lit("must"), Lit("will"), Lit("agree to"),
                         Lit("undertake to"), Lit("covenant to")>>),
            Cls("space", 1, -1), Cls("notdot", 1, -1)>>),
    SeqOf(<<WordB, Alt(<<Lit("responsible for"), Lit("liable for"), Lit("obligated to")>>),
            Cls("space", 1, -1), Cls("notdot", 1, -1)>>),
    SeqOf(<<WordB, Lit("party"), Cls("space", 1, -1),
            Alt(<<Lit("A"), Lit("B"), Cls("word", 1, -1)>>), Cls("space", 1, -1),
            Alt(<<Lit("shall"), Lit("must"), Lit("will")>>),
            Cls("space", 1, -1), Cls("notdot", 1, -1)>>)
>>

\* mutant: a match is dropped when the same text was matched before
ExtendAll_Distinct(patterns, txt, ic) ==
    LET all == Flatten([p \in 1..Len(patterns) |-> FindAll(patterns[p], txt, ic)],
                       1, Len(patterns))
        kept[n \in 0..Len(all)] ==
            IF n = 0 THEN <<>>
            ELSE IF \E m \in 1..(n - 1) : all[m] = all[n] THEN kept[n - 1]
            ELSE Append(kept[n - 1], all[n])
    IN  kept[Len(all)]

\* for pattern in patterns: entities[key].extend(re.findall(pattern, text, flags))
ExtendAll(patterns, txt, ic) ==
    Flatten([p \in 1..Len(patterns) |-> FindAll(patterns[p], txt, ic)], 1, Len(patterns))

\* mutant: a term appended wherever it occurs as a substring, `term in text.lower()`
RECURSIVE LegalTermsFound_Substring(_, _)
LegalTermsFound_Substring(txt, k) ==
    IF k > Len(legal_terms) THEN <<>>
    ELSE (IF Contains(legal_terms[k], Lower(txt)) THEN <<legal_terms[k]>> ELSE <<>>)
         \o LegalTermsFound_Substring(txt, k + 1)

\* main.py:217-219, the terms appended, from legal_terms[k..]
RECURSIVE LegalTermsFound(_, _)
LegalTermsFound(txt, k) ==
    IF k > Len(legal_terms) THEN <<>>
    ELSE (IF SearchPhrase(legal_terms[k], txt) THEN <<legal_terms[k]>> ELSE <<>>)
         \o LegalTermsFound(txt, k + 1)

\* mutant: the organization matches also stored under 'parties'
extract_named_entities_Parties(txt) ==
    [parties |-> ExtendAll(org_patterns, txt, FALSE),
     dates |-> ExtendAll(date_patterns, txt, TRUE),
     monetary_values |-> ExtendAll(money_patterns, txt, TRUE),
     obligations |-> ExtendAll(obligation_patterns, txt, TRUE),
     legal_terms |-> LegalTermsFound(txt, 1),
     locations |-> <<>>,
     organizations |-> ExtendAll(org_patterns, txt, FALSE)]

\* main.py:178-238
extract_named_entities(txt) ==
    [parties |-> <<>>,
     dates |-> ExtendAll(date_patterns, txt, TRUE),
     monetary_values |-> ExtendAll(money_patterns, txt, TRUE),
     obligations |-> ExtendAll(obligation_patterns, txt, TRUE),
     legal_terms |-> LegalTermsFound(txt, 1),
     locations |-> <<>>,
     organizations |-> ExtendAll(org_patterns, txt, FALSE)]

(***************************************************************************)
(* extract_clauses, main.py:240-289                                        *)
(***************************************************************************)

\* main.py:255-266, in definition (= dict iteration) order
clause_types == <<
    [name |-> "definitions", keywords |-> <<"definition", "means", "shall mean", "defined as">>],
    [name |-> "payment",
     keywords |-> <<"payment", "fee", "compensation", "salary", "remuneration", "cost">>],
    [name |-> "termination",
     keywords |-> <<"terminate", "termination", "end", "expiry", "expire">>],
    [name |-> "confidentiality",
     keywords |-> <<"confidential", "non-disclosure", "proprietary", "secret">>],
    [name |-> "liability",
     keywords |-> <<"liability", "liable", "damages", "loss", "harm", "responsible">>],
    [name |-> "warranty",
     keywords |-> <<"warranty", "warrant", "guarantee", "represent", "representation">>],
    [name |-> "intellectual_property",
     keywords |-> <<"intellectual property", "copyright", "trademark", "patent">>],
    [name |-> "governing_law",
     keywords |-> <<"governing law", "jurisdiction", "court", "applicable law">>],
    [name |-> "force_majeure",
     keywords |-> <<"force majeure", "act of god", "unforeseeable", "beyond control">>],
    [name |-> "amendment", keywords |-> <<"amendment", "modify", "change", "alter", "update">>]
>>

\* main.py:277, any(keyword.lower() in paragraph.lower() for keyword in keywords)
AnyKeywordIn(keywords, paragraph_lower) ==
    \E k \in 1..Len(keywords) : Contains(Lower(keywords[k]), paragraph_lower)

\* mutant: the category with the most keywords present, the first of them on a tie
ClauseType_BestMatch(paragraph) ==
    LET paragraph_lower == Lower(paragraph)
        count(c) == Cardinality({k \in 1..Len(clause_types[c].keywords) :
                        Contains(Lower(clause_types[c].keywords[k]), paragraph_lower)})
        best == CHOOSE c \in 1..Len(clause_types) :
                    /\ \A d \in 1..Len(clause_types) : count(d) <= count(c)
                    /\ \A d \in 1..(c - 1) : count(d) < count(c)
    IN  IF count(best) = 0 THEN "general" ELSE clause_types[best].name

\* mutant: the keywords looked for in the paragraph as written, not lowercased
ClauseType_CaseSensitive(paragraph) ==
    LET hits == {c \in 1..Len(clause_types) : AnyKeywordIn(clause_types[c].keywords, paragraph)}
    IN  IF hits = {} THEN "general"
        ELSE clause_types[CHOOSE c \in hits : \A d \in hits : c <= d].name

\* main.py:273-279: 'general' unless a category matches; the loop breaks at the first that does
ClauseType(paragraph) ==
    LET paragraph_lower == Lower(paragraph)
        hits == {c \in 1..Len(clause_types) :
                    AnyKeywordIn(clause_types[c].keywords, paragraph_lower)}
    IN  IF hits = {} THEN "general"
        ELSE clause_types[CHOOSE c \in hits : \A d \in hits : c <= d].name

\* main.py:281-287, the dict appended for paragraphs[i], where n = i + 1
ClauseOf(paragraph, n) ==
    [id |-> n,
     text |-> Strip(paragraph),
     type |-> ClauseType(paragraph),
     simplified |-> simplify_clause(Strip(paragraph)),
     entities |-> extract_named_entities(Strip(paragraph))]

\* mutant: >= instead of >
IsClause_AtLeast(paragraph) == Len(Strip(paragraph)) >= ShortParagraph

\* main.py:272
IsClause(paragraph) == Len(Strip(paragraph)) > ShortParagraph

\* main.py:269
Paragraphs(txt) == Split(txt, "\n\n")

\* mutant: each clause put in front of the list instead of appended
extract_clauses_Prepend(txt) ==
    LET paragraphs == Paragraphs(txt)
        m == Len(paragraphs)
    IN  Flatten([n \in 1..m |->
                    IF IsClause(paragraphs[m + 1 - n])
                    THEN <<ClauseOf(paragraphs[m + 1 - n], m + 1 - n)>> ELSE <<>>],
                1, m)

\* mutant: every clause given the entities of the whole document
extract_clauses_DocumentEntities(txt) ==
    LET paragraphs == Paragraphs(txt)
    IN  Flatten([n \in 1..Len(paragraphs) |->
                    IF IsClause(paragraphs[n])
                    THEN <<[ClauseOf(paragraphs[n], n) EXCEPT
                               !.entities = extract_named_entities(txt)]>>
                    ELSE <<>>],
                1, Len(paragraphs))

\* main.py:240-289
extract_clauses(txt) ==
    LET paragraphs == Paragraphs(txt)
    IN  Flatten([n \in 1..Len(paragraphs) |->
                    IF IsClause(paragraphs[n]) THEN <<ClauseOf(paragraphs[n], n)>> ELSE <<>>],
                1, Len(paragraphs))

(***************************************************************************)
(* classify_document_type, main.py:291-323                                 *)
(***************************************************************************)

\* main.py:295-306, in definition (= dict iteration) order
document_types == <<
    [name |-> "nda",
     keywords |-> <<"non-disclosure", "confidentiality", "proprietary information", "trade secret">>],
    [name |-> "employment_contract",
     keywords |-> <<"employment", "employee", "employer", "salary", "job title", "work duties">>],
    [name |-> "service_agreement",
     keywords |-> <<"service", "services", "provider", "client", "deliverables", "scope of work">>],
    [name |-> "lease_agreement",
     keywords |-> <<"lease", "rent", "tenant", "landlord", "premises", "property">>],
    [name |-> "purchase_agreement",
     keywords |-> <<"purchase", "sale", "buyer", "seller", "goods", "merchandise">>],
    [name |-> "license_agreement",
     keywords |-> <<"license", "licensor", "licensee", "intellectual property", "usage rights">>],
    [name |-> "partnership_agreement",
     keywords |-> <<"partnership", "partner", "joint venture", "profit sharing">>],
    [name |-> "loan_agreement",
     keywords |-> <<"loan", "borrower", "lender", "interest", "repayment", "principal">>],
    [name |-> "merger_agreement",
     keywords |-> <<"merger", "acquisition", "consolidation", "shareholders">>],
    [name |-> "settlement_agreement",
     keywords |-> <<"settlement", "dispute", "resolution", "claims", "release">>]
>>

\* a / b < c / d for fractions with positive denominators
FracLess(a, b) == a.num * b.den < b.num * a.den
FracEq(a, b) == a.num * b.den = b.num * a.den

\* mutant: every occurrence of a keyword counted
KeywordHits_Occurrences(keywords, text_lower) ==
    Cardinality({<<j, i>> \in (1..Len(keywords)) \X (1..Len(text_lower)) :
                    StartsAt(keywords[j], text_lower, i)})

\* main.py:312, sum(1 for keyword in keywords if keyword in text_lower)
KeywordHits(keywords, text_lower) ==
    Cardinality({j \in 1..Len(keywords) : Contains(keywords[j], text_lower)})

\* main.py:311-313, the scores dict, by position in document_types
ProfileScores(txt) ==
    LET text_lower == Lower(txt)
    IN  [p \in 1..Len(document_types) |->
            [num |-> KeywordHits(document_types[p].keywords, text_lower),
             den |-> Len(document_types[p].keywords)]]

\* mutant: the last of the keys with the maximal value
BestType_LastMax(scores) ==
    CHOOSE p \in DOMAIN scores :
        /\ \A q \in DOMAIN scores : ~FracLess(scores[p], scores[q])
        /\ \A q \in DOMAIN scores : q > p => FracLess(scores[q], scores[p])

\* main.py:316, max(scores, key=scores.get): the first key, in iteration
\* order, whose value no other key exceeds
BestType(scores) ==
    CHOOSE p \in DOMAIN scores :
        /\ \A q \in DOMAIN scores : ~FracLess(scores[p], scores[q])
        /\ \A q \in DOMAIN scores : q < p => FracLess(scores[q], scores[p])

\* mutant: confidence <= 1/6
TooLow_Sixth(confidence) == confidence.num * 6 <= confidence.den

\* mutant: confidence < 0.2
TooLow_Fifth(confidence) == confidence.num * 5 < confidence.den

\* main.py:320, confidence < 0.1
TooLow(confidence) == confidence.num * 10 < confidence.den

\* mutant: every text is of type 'other' once a document is registered
classify_document_type_Registry(txt) ==
    LET scores == ProfileScores(txt)
        best_type == BestType(scores)
        confidence == scores[best_type]
    IN  IF processed_documents # <<>> \/ TooLow(confidence)
        THEN [type |-> "other", confidence |-> [num |-> 0, den |-> 1]]
        ELSE [type |-> document_types[best_type].name, confidence |-> confidence]

\* mutant: the best profile returned whatever its score, without the 'other' fallback
classify_document_type_NoFallback(txt) ==
    LET scores == ProfileScores(txt)
        best_type == BestType(scores)
    IN  [type |-> document_types[best_type].name, confidence |-> scores[best_type]]

\* main.py:291-323
classify_document_type(txt) ==
    LET scores == ProfileScores(txt)
        best_type == BestType(scores)
        confidence == scores[best_type]
    IN  IF TooLow(confidence)
        THEN [type |-> "other", confidence |-> [num |-> 0, den |-> 1]]
        ELSE [type |-> document_types[best_type].name, confidence |-> confidence]

(***************************************************************************)
(* Calls of the four functions.  `text` is the argument, `result` what the *)
(* call returned; result.op names the function, "none" before the call.    *)
(***************************************************************************)

NoResult == [op |-> "none"]

\* the functions called on their own, outside a running server
NoServer ==
    /\ processed_documents = <<>>
    /\ index = "None"
    /\ vectors = {}
    /\ classified = {}

\* a call of classify_document_type(text); scores is the function's local dict
ClassifyCall ==
    /\ result.op = "none"
    /\ LET r == classify_document_type(text)
       IN  result' = [op |-> "classify", type |-> r.type, confidence |-> r.confidence,
                      scores |-> ProfileScores(text)]
    /\ UNCHANGED <<text, server>>

\* a call of extract_clauses(text); paragraphs is the function's local list
ExtractClausesCall ==
    /\ result.op = "none"
    /\ result' = [op |-> "extract_clauses", clauses |-> extract_clauses(text),
                  paragraphs |-> Paragraphs(text)]
    /\ UNCHANGED <<text, server>>

\* a call of extract_named_entities(text)
ExtractEntitiesCall ==
    /\ result.op = "none"
    /\ result' = [op |-> "extract_named_entities", entities |-> extract_named_entities(text)]
    /\ UNCHANGED <<text, server>>

\* main.py:159-176, what a call leaves once the substitutions gave `simplified`:
\* the locals simplified and simplified_sentences and the value returned
SimplifyDone(simplified, pass) ==
    [op |-> "simplify_clause", pass |-> pass, simplified |-> simplified,
     sentences |-> SimplifiedSentences(simplified), output |-> JoinSentences(simplified)]

\* a call of simplify_clause(text)
SimplifyCall ==
    /\ result.op = "none"
    /\ result' = SimplifyDone(Substitute(text), 1)
    /\ UNCHANGED <<text, server>>

\* a second call, on the text the substitutions of the first call gave
SimplifyAgainCall ==
    /\ result.op = "simplify_clause"
    /\ result.pass = 1
    /\ text' = result.simplified
    /\ result' = SimplifyDone(Substitute(result.simplified), 2)
    /\ UNCHANGED server

(***************************************************************************)
(* SpecClassify: classify_document_type on every text made of at most      *)
(* MaxClassifyFrags of the fragments below.                                *)
(***************************************************************************)

MaxClassifyFrags == 2

ClassifyFragments ==
    {"Non-Disclosure ", "merger ", "Partner ", "release ", "services ", "Employee salary ",
     "intellectual property ", "hello ", "loan ", "rent "}

ClassifyTexts == {Concat(f) : f \in SeqsUpTo(ClassifyFragments, MaxClassifyFrags)}

InitClassify ==
    /\ text \in ClassifyTexts
    /\ result = NoResult
    /\ NoServer

NextClassify == ClassifyCall

SpecClassify == InitClassify /\ [][NextClassify]_vars

\* the position of a document type in document_types, 0 for 'other'
TypeIndex(type) ==
    IF \E p \in 1..Len(document_types) : document_types[p].name = type
    THEN CHOOSE p \in 1..Len(document_types) : document_types[p].name = type
    ELSE 0

\* C1: the type is 'other' iff the returned confidence is below 0.1, and then the
\* confidence is 0.0; ('other', 0.0) is returned whenever every profile scores below
\* 0.1, and otherwise a profile of maximal score with its own score.
C1_OtherIffLowConfidence ==
    result.op = "classify" =>
        /\ (result.type = "other") <=> (result.confidence.num * 10 < result.confidence.den)
        /\ result.type = "other" => result.confidence.num = 0
        /\ IF \A p \in DOMAIN result.scores : result.scores[p].num * 10 < result.scores[p].den
           THEN result.type = "other" /\ result.confidence.num = 0
           ELSE \E p \in DOMAIN result.scores :
                    /\ result.type = document_types[p].name
                    /\ result.confidence = result.scores[p]
                    /\ \A q \in DOMAIN result.scores :
                           ~FracLess(result.scores[p], result.scores[q])

C1_Witness ==
    /\ result.op = "classify"
    /\ result.type = "other"
    /\ result.confidence.num = 0
    /\ Len(text) > 0

\* C2: of the profiles that share the maximal score the first-defined one is
\* returned: every profile defined before the returned one scores strictly less.
C2_FirstDefinedWinsTies ==
    (result.op = "classify" /\ result.type # "other") =>
        LET p == TypeIndex(result.type)
        IN  /\ p \in DOMAIN result.scores
            /\ \A q \in DOMAIN result.scores :
                   /\ ~FracLess(result.scores[p], result.scores[q])
                   /\ q < p => FracLess(result.scores[q], result.scores[p])

\* a tie for the maximum between the returned profile and a later-defined one
C2_Witness ==
    /\ result.op = "classify"
    /\ result.type # "other"
    /\ \E q \in DOMAIN result.scores :
           /\ q > TypeIndex(result.type)
           /\ FracEq(result.scores[q], result.scores[TypeIndex(result.type)])

\* C3: a profile's score is (keywords of the profile that occur in the lowercased
\* text, each counted once) / (keywords of the profile); scores and the returned
\* confidence lie in [0, 1]; the returned profile's score is >= every other score.
C3_ScoreIsHitFraction ==
    result.op = "classify" =>
        /\ \A p \in DOMAIN result.scores :
               LET kws == {document_types[p].keywords[k] :
                              k \in 1..Len(document_types[p].keywords)}
               IN  /\ result.scores[p].den = Cardinality(kws)
                   /\ result.scores[p].num =
                          Cardinality({kw \in kws : Contains(kw, Lower(text))})
                   /\ 0 <= result.scores[p].num
                   /\ result.scores[p].num <= result.scores[p].den
        /\ 0 <= result.confidence.num
        /\ result.confidence.num <= result.confidence.den
        /\ result.type # "other" =>
               \A q \in DOMAIN result.scores :
                   ~FracLess(result.scores[TypeIndex(result.type)], result.scores[q])

\* a keyword that occurs twice in the text and is counted once
C3_Witness ==
    /\ result.op = "classify"
    /\ \E i, j \in 1..Len(text) : i # j /\ StartsAt("loan", Lower(text), i)
                                  /\ StartsAt("loan", Lower(text), j)
    /\ result.scores[8].num = 1
    /\ result.type = "loan_agreement"

\* C28: the returned confidence is 0 or at least 1/6: no profile has more
\* than six keywords, so no score lies strictly between 0 and 0.1 and one
\* keyword hit is never below the threshold; the type is 'other' exactly when
\* no keyword of any profile occurs in the lowercased text.
C28_ConfidenceZeroOrSixth ==
    result.op = "classify" =>
        /\ \A p \in DOMAIN result.scores :
               /\ result.scores[p].den <= 6
               /\ result.scores[p].num = 0 \/ result.scores[p].num * 10 >= result.scores[p].den
        /\ result.confidence.num = 0 \/ result.confidence.num * 6 >= result.confidence.den
        /\ result.type = "other" <=>
               \A p \in 1..Len(document_types) :
                   \A k \in 1..Len(document_types[p].keywords) :
                       ~Contains(document_types[p].keywords[k], Lower(text))

\* one keyword of a six-keyword profile occurs, and nothing else: the text is
\* of that profile with confidence exactly 1/6
C28_Witness ==
    /\ result.op = "classify"
    /\ result.type = "loan_agreement"
    /\ result.confidence.num = 1
    /\ result.confidence.den = 6
    /\ \A p \in DOMAIN result.scores : p # 8 => result.scores[p].num = 0

(***************************************************************************)
(* SpecClauses: extract_clauses on every document of at most MaxParagraphs *)
(* paragraphs of the pool below, joined by blank lines.                    *)
(***************************************************************************)

MaxParagraphs == 3

ParagraphPool ==
    {Repeat("x", 50) \o " ",                          \* 51 characters, 50 when trimmed
     "\n" \o Repeat("x", 51),                         \* 51 when trimmed, after a third newline
     "Damages and liability for loss or harm: see Payment.",
     "THIS AMENDMENT SHALL BE GOVERNED BY THE LAW OF THE COURT."}

ClauseTexts == {Join("\n\n", ps, 1) : ps \in SeqsUpTo(ParagraphPool, MaxParagraphs)}

InitClauses ==
    /\ text \in ClauseTexts
    /\ result = NoResult
    /\ NoServer

NextClauses == ExtractClausesCall

SpecClauses == InitClauses /\ [][NextClauses]_vars

\* C5 (as claimed): the k-th returned clause has id k.
C5_IdsAreSequential ==
    result.op = "extract_clauses" =>
        \A k \in 1..Len(result.clauses) : result.clauses[k].id = k

\* C6: the text is cut at the blank lines; a paragraph yields exactly one clause
\* when its trimmed length exceeds 50 and none otherwise; no clause text is 50
\* characters or shorter once trimmed.
C6_OneClausePerLongParagraph ==
    result.op = "extract_clauses" =>
        LET ps == result.paragraphs
            cs == result.clauses
        IN  /\ Join("\n\n", ps, 1) = text
            /\ \A n \in 1..Len(ps) : ~Contains("\n\n", ps[n])
            /\ \A n \in 1..Len(ps) :
                   LET made == {k \in 1..Len(cs) : cs[k].id = n}
                   IN  IF Len(Strip(ps[n])) > 50
                       THEN /\ Cardinality(made) = 1
                            /\ \A k \in made : cs[k].text = Strip(ps[n])
                       ELSE made = {}
            /\ \A k \in 1..Len(cs) :
                   /\ cs[k].id \in 1..Len(ps)
                   /\ Len(Strip(cs[k].text)) > 50

\* a paragraph of 51 characters that trims to 50 is dropped, one of 51 is kept
C6_Witness ==
    /\ result.op = "extract_clauses"
    /\ \E n \in 1..Len(result.paragraphs) :
           Len(result.paragraphs[n]) = 51 /\ Len(Strip(result.paragraphs[n])) = 50
    /\ \E k \in 1..Len(result.clauses) : Len(result.clauses[k].text) = 51
    /\ Len(result.clauses) < Len(result.paragraphs)

\* C7: the clauses come in the order of their paragraphs, with strictly
\* increasing ids.
C7_OrderPreserved ==
    result.op = "extract_clauses" =>
        LET cs == result.clauses
        IN  /\ \A j, k \in 1..Len(cs) : j < k => cs[j].id < cs[k].id
            /\ \A k \in 1..Len(cs) :
                   /\ cs[k].id \in 1..Len(result.paragraphs)
                   /\ cs[k].text = Strip(result.paragraphs[cs[k].id])

\* two different clauses around a dropped paragraph
C7_Witness ==
    /\ result.op = "extract_clauses"
    /\ Len(result.paragraphs) = 3
    /\ Len(result.clauses) = 2
    /\ result.clauses[1].id = 1
    /\ result.clauses[2].id = 3
    /\ result.clauses[1].text # result.clauses[2].text

\* the index of a clause category in clause_types, 0 for 'general'
CategoryIndex(type) ==
    IF \E c \in 1..Len(clause_types) : clause_types[c].name = type
    THEN CHOOSE c \in 1..Len(clause_types) : clause_types[c].name = type
    ELSE 0

\* the keywords of category c that occur in the paragraph, without regard to case
KeywordsPresent(c, paragraph) ==
    {k \in 1..Len(clause_types[c].keywords) :
        \E i \in 1..Len(paragraph) :
            LitAt(clause_types[c].keywords[k], paragraph, i, TRUE)}

\* C8: a clause gets the earliest-listed category one of whose keywords occurs in
\* its paragraph (case-insensitively), 'general' iff no keyword of any category
\* occurs, and always one of the eleven category names.
C8_FirstMatchCategory ==
    result.op = "extract_clauses" =>
        \A k \in 1..Len(result.clauses) :
            LET paragraph == result.paragraphs[result.clauses[k].id]
                type == result.clauses[k].type
                c == CategoryIndex(type)
            IN  /\ type \in {"definitions", "payment", "termination", "confidentiality",
                             "liability", "warranty", "intellectual_property",
                             "governing_law", "force_majeure", "amendment", "general"}
                /\ (type = "general") <=>
                       (\A d \in 1..Len(clause_types) : KeywordsPresent(d, paragraph) = {})
                /\ type # "general" =>
                       /\ KeywordsPresent(c, paragraph) # {}
                       /\ \A d \in 1..(c - 1) : KeywordsPresent(d, paragraph) = {}

\* a clause whose category has fewer keywords present than a later-listed one
C8_Witness ==
    /\ result.op = "extract_clauses"
    /\ \E k \in 1..Len(result.clauses) :
           LET paragraph == result.paragraphs[result.clauses[k].id]
               c == CategoryIndex(result.clauses[k].type)
           IN  /\ c > 0
               /\ \E d \in (c + 1)..Len(clause_types) :
                      Cardinality(KeywordsPresent(d, paragraph))
                          > Cardinality(KeywordsPresent(c, paragraph))

\* C20: a clause's text is its paragraph trimmed, its simplified text (the
\* 'simplified' key of main.py:285) is simplify_clause of that trimmed text, and
\* its entities are extract_named_entities of that trimmed text alone, whatever
\* the other paragraphs of the document hold.
C20_ClauseFieldsFromOwnText ==
    result.op = "extract_clauses" =>
        \A k \in 1..Len(result.clauses) :
            LET clause == result.clauses[k]
            IN  /\ clause.text = Strip(result.paragraphs[clause.id])
                /\ clause.simplified = simplify_clause(clause.text)
                /\ clause.entities = extract_named_entities(clause.text)

\* two clauses with different legal terms, fewer each than the document as a
\* whole holds, one of them reworded by the simplifier
C20_Witness ==
    /\ result.op = "extract_clauses"
    /\ Len(result.clauses) = 2
    /\ result.clauses[1].entities.legal_terms = <<"liability", "damages">>
    /\ result.clauses[2].entities.legal_terms = <<"amendment">>
    /\ Len(extract_named_entities(text).legal_terms) = 3
    /\ result.clauses[2].simplified # result.clauses[2].text
    /\ Contains("must", result.clauses[2].simplified)

(***************************************************************************)
(* SpecExample: extract_clauses on two-paragraph documents whose first     *)
(* paragraph has 30 characters and whose second has 200 and contains       *)
(* "terminate".                                                            *)
(***************************************************************************)

\* s filled up to n characters with c, on the right or on the left
PadRight(s, n, c) == s \o Repeat(c, n - Len(s))
PadLeft(s, n, c) == Repeat(c, n - Len(s)) \o s

FirstParagraphs ==
    {PadRight("", 30, "a"), PadRight("", 30, " "), PadRight("Payment terms: fee and salary", 30, ".")}

\* what stands before "terminate" in the second paragraph
Inserts == {"", " means ", " Fee ", " DEFINED AS ", " liable "}

SecondParagraphs ==
    {PadRight(ins \o "terminate", 200, c) : ins \in Inserts, c \in {"b", " "}}
        \cup {PadLeft(ins \o "terminate", 200, c) : ins \in Inserts, c \in {"b", " "}}

InitExample ==
    /\ text \in {p1 \o "\n\n" \o p2 : p1 \in FirstParagraphs, p2 \in SecondParagraphs}
    /\ result = NoResult
    /\ NoServer

NextExample == ExtractClausesCall

SpecExample == InitExample /\ [][NextExample]_vars

\* the document of the example: two paragraphs, of 30 and of 200 characters, the
\* second containing "terminate"
IsExampleDocument ==
    /\ result.op = "extract_clauses"
    /\ Len(result.paragraphs) = 2
    /\ Len(result.paragraphs[1]) = 30
    /\ Len(result.paragraphs[2]) = 200
    /\ Contains("terminate", result.paragraphs[2])

MaxEntityFrags == 2

EntityFragments ==
    {"Party A shall pay $5,000.00. ", "Acme Inc signed ", "on January 5, 2024 ",
     "in New York ", "this Agreement ", "John Smith ", "is liable for 10 dollars. ",
     "12/31/2024 ", "a WARRANTY provision, ", "contracts of Company Limited ",
     "they MUST agree to sign "}

\* the sentence of the documentation's example
ExampleSentence ==
    "This Agreement is a Non-Disclosure Agreement between Acme Inc and Beta LLC, "
        \o "dated January 5, 2024, for $5,000.00 per annum."

EntityTexts ==
    {Concat(f) : f \in SeqsUpTo(EntityFragments, MaxEntityFrags)} \cup {ExampleSentence}

InitEntities ==
    /\ text \in EntityTexts
    /\ result = NoResult
    /\ NoServer

NextEntities == ExtractEntitiesCall

SpecEntities == InitEntities /\ [][NextEntities]_vars

IsSequence(v) == DOMAIN v = 1..Len(v)

WholeWordOccurs(term, txt) ==
    \E i \in 1..Len(txt) :
        /\ LitAt(term, txt, i, TRUE)
        /\ i = 1 \/ ~IsWord(Char(txt, i - 1))
        /\ i + Len(term) > Len(txt) \/ ~IsWord(Char(txt, i + Len(term)))

\* the legal terms returned are those terms of the vocabulary that stand in the
\* text as whole words, each once, in the order of the vocabulary
TermsInOrderOf(vocabulary) ==
    LET found == result.entities.legal_terms
        pos(t) == CHOOSE p \in 1..Len(vocabulary) : vocabulary[p] = t
    IN  /\ \A k \in 1..Len(found) : \E p \in 1..Len(vocabulary) : vocabulary[p] = found[k]
        /\ \A j, k \in 1..Len(found) : j < k => pos(found[j]) < pos(found[k])
        /\ \A p \in 1..Len(vocabulary) :
               (\E k \in 1..Len(found) : found[k] = vocabulary[p])
                   <=> WholeWordOccurs(vocabulary[p], text)

\* C11 (as claimed): the legal terms are the vocabulary terms that occur as whole
\* words, each at most once, in the order contract, agreement, clause, warranty,
\* ..., amendment, provision.
C11_TermsInSpecOrder ==
    result.op = "extract_named_entities" =>
        TermsInOrderOf(<<"contract", "agreement", "clause", "warranty", "indemnification",
                         "liability", "damages", "breach", "termination", "confidentiality",
                         "non-disclosure", "intellectual property", "copyright", "trademark",
                         "patent", "trade secret", "force majeure", "arbitration",
                         "jurisdiction", "governing law", "amendment", "provision">>)

\* C11 (amended): the legal terms are the vocabulary terms that occur as whole
\* words (case-insensitively), each at most once, in the order of the list of
\* main.py:211-216, where provision is the fourth term: contract, agreement,
\* clause, provision, warranty, ..., governing law, amendment; the order of
\* occurrence in the text plays no part.
C11_TermsInListOrder ==
    result.op = "extract_named_entities" =>
        TermsInOrderOf(<<"contract", "agreement", "clause", "provision", "warranty",
                         "indemnification", "liability", "damages", "breach", "termination",
                         "confidentiality", "non-disclosure", "intellectual property",
                         "copyright", "trademark", "patent", "trade secret", "force majeure",
                         "arbitration", "jurisdiction", "governing law", "amendment">>)

\* 'provision' stands before 'warranty' in the list and after it in the text,
\* and 'contracts' is not the word 'contract'
C11_Witness ==
    /\ result.op = "extract_named_entities"
    /\ text = "contracts of Company Limited a WARRANTY provision, "
    /\ result.entities.legal_terms = <<"provision", "warranty">>

\* C12: dates, monetary values, organizations and obligations are each the
\* match-all results of the category's patterns concatenated in pattern order
\* (all matches of pattern 1 in text order, then all of pattern 2, ...); nothing
\* is deduplicated, so the length is the sum of the numbers of matches.
C12_ConcatenatedInPatternOrder ==
    result.op = "extract_named_entities" =>
        /\ result.entities.dates =
               FindAll(date_patterns[1], text, TRUE) \o FindAll(date_patterns[2], text, TRUE)
                   \o FindAll(date_patterns[3], text, TRUE)
        /\ result.entities.monetary_values =
               FindAll(money_patterns[1], text, TRUE) \o FindAll(money_patterns[2], text, TRUE)
                   \o FindAll(money_patterns[3], text, TRUE)
        /\ result.entities.organizations =
               FindAll(org_patterns[1], text, FALSE) \o FindAll(org_patterns[2], text, FALSE)
        /\ result.entities.obligations =
               FindAll(obligation_patterns[1], text, TRUE)
                   \o FindAll(obligation_patterns[2], text, TRUE)
                   \o FindAll(obligation_patterns[3], text, TRUE)
        /\ Len(result.entities.organizations) =
               Len(Spans(org_patterns[1], text, FALSE)) + Len(Spans(org_patterns[2], text, FALSE))

\* one span matched by both organization patterns and listed twice; the match of
\* the third obligation pattern listed after the match of the first, which
\* starts later in the text
C12_Witness ==
    /\ result.op = "extract_named_entities"
    /\ text = "Party A shall pay $5,000.00. contracts of Company Limited "
    /\ result.entities.organizations = <<"Company Limited", "Company Limited">>
    /\ result.entities.obligations = <<"shall pay $5,000", "Party A shall pay $5,000">>

\* the obligation o stands at position i of the text: it starts at a word
\* boundary and is followed by '.' or by the end of the text
ObligationAt(o, i) ==
    /\ StartsAt(o, text, i)
    /\ i = 1 \/ ~IsWord(Char(text, i - 1))
    /\ i + Len(o) > Len(text) \/ Char(text, i + Len(o)) = "."

\* C13: every obligation starts at a modal/duty phrase or at 'party <X>
\* shall/must/will', contains no '.', and stands in the text followed by '.' or
\* running to the end of the text.
C13_ObligationRunsToPeriod ==
    result.op = "extract_named_entities" =>
        \A k \in 1..Len(result.entities.obligations) :
            LET o == result.entities.obligations[k]
            IN  /\ ~Contains(".", o)
                /\ \/ \E phrase \in {"shall", "must", "will", "agree to", "undertake to",
                                      "covenant to", "responsible for", "liable for",
                                      "obligated to"} :
                          LitAt(phrase, o, 1, TRUE)
                   \/ /\ LitAt("party", o, 1, TRUE)
                      /\ \E modal \in {"shall", "must", "will"} : WholeWordOccurs(modal, o)
                /\ \E i \in 1..Len(text) : ObligationAt(o, i)

\* one obligation that ends before a '.' and one that runs to the end of the text
C13_Witness ==
    /\ result.op = "extract_named_entities"
    /\ \E k \in 1..Len(result.entities.obligations) :
           \E i \in 1..Len(text) :
               /\ ObligationAt(result.entities.obligations[k], i)
               /\ i + Len(result.entities.obligations[k]) <= Len(text)
    /\ \E k \in 1..Len(result.entities.obligations) :
           \E i \in 1..Len(text) :
               /\ ObligationAt(result.entities.obligations[k], i)
               /\ i + Len(result.entities.obligations[k]) = Len(text) + 1
               /\ LitAt("must", result.entities.obligations[k], 1, TRUE)

\* C14: for the example sentence the dates are exactly ["January 5, 2024"], the
\* monetary values exactly ["$5,000.00"], the legal terms include "agreement" and
\* "non-disclosure", and the organizations include "Acme Inc" and "Beta LLC".
C14_ExampleEntities ==
    (result.op = "extract_named_entities" /\ text = ExampleSentence) =>
        /\ result.entities.dates = <<"January 5, 2024">>
        /\ result.entities.monetary_values = <<"$5,000.00">>
        /\ \A term \in {"agreement", "non-disclosure"} :
               \E k \in 1..Len(result.entities.legal_terms) :
                   result.entities.legal_terms[k] = term
        /\ \A organization \in {"Acme Inc", "Beta LLC"} :
               \E k \in 1..Len(result.entities.organizations) :
                   result.entities.organizations[k] = organization

C14_Witness ==
    /\ result.op = "extract_named_entities"
    /\ text = ExampleSentence
    /\ Len(result.entities.organizations) = 2
    /\ result.entities.obligations = <<>>

(***************************************************************************)
(* SpecSimplify: simplify_clause on every text made of at most             *)
(* MaxSimplifyFrags of the fragments below, and once more on the text its  *)
(* substitutions gave.                                                     *)
(***************************************************************************)

MaxSimplifyFrags == 2

\* the call of the documentation's example
SimplifyExample == "The parties shall act in good faith pursuant to this Agreement."

\* 142 characters, one sentence
LongSentenceText ==
    "The Tenant shall pay all rent due under this lease on the first day of each month, "
        \o "and the Landlord may inspect the premises, AND repair them."

\* 148 characters when trimmed, no final period
LongTail ==
    " notwithstanding the above, However the Supplier must deliver the goods forthwith,"
        \o "or refund the price pro rata,  but   not both at once unless agreed"

SimplifyFragments ==
    {SimplifyExample, LongSentenceText, LongTail,
     " It is null and void", " . ",
     PadRight("Exactly, and so ", 100, "x") \o ".",      \* a sentence of 100 characters
     "party of the first part", " of the first part", "Party of the Second Part"}

SimplifyTexts == {Concat(f) : f \in SeqsUpTo(SimplifyFragments, MaxSimplifyFrags)}

InitSimplify ==
    /\ text \in SimplifyTexts
    /\ result = NoResult
    /\ NoServer

NextSimplify == SimplifyCall \/ SimplifyAgainCall

SpecSimplify == InitSimplify /\ [][NextSimplify]_vars

\* C15 (as claimed): the example call returns "The parties must act in good faith
\* according to this Agreement." with its final period, and for every text that
\* is one sentence of at most 100 characters ending in '.', the value returned is
\* the substituted text, final '.' included.
C15_SingleSentenceKeepsPeriod ==
    result.op = "simplify_clause" =>
        /\ text = SimplifyExample =>
               result.output = "The parties must act in good faith according to this Agreement."
        /\ (/\ Len(text) <= 100
            /\ EndsWith(text, ".")
            /\ ~Contains(".", SubSeq(text, 1, Len(text) - 1)))
               => result.output = result.simplified

\* C16: the value returned is the surviving fragments joined with ". ", followed
\* by one more '.' exactly when the substituted text does not end with '.'; so it
\* ends with '.' exactly when the substituted text does not.
C16_PeriodAppendedUnlessPresent ==
    result.op = "simplify_clause" =>
        /\ result.output =
               Join(". ", result.sentences, 1)
                   \o (IF EndsWith(result.simplified, ".") THEN "" ELSE ".")
        /\ \A k \in 1..Len(result.sentences) :
               result.sentences[k] # "" /\ ~Contains(".", result.sentences[k])
        /\ EndsWith(result.output, ".") <=> ~EndsWith(result.simplified, ".")

\* two sentences of a text that ends with '.': joined with ". ", nothing appended
C16_Witness ==
    /\ result.op = "simplify_clause"
    /\ Len(result.sentences) = 2
    /\ EndsWith(result.simplified, ".")
    /\ result.output = result.sentences[1] \o ". " \o result.sentences[2]
    /\ result.output # result.simplified

\* C17 (as claimed): a sentence of trimmed length over 100 is cut wherever a comma
\* is followed by and, or, but, however, moreover or furthermore in any case of
\* letters, the fragments trimmed and the empty ones dropped; a sentence of
\* trimmed length 100 or less is kept as one trimmed fragment if non-empty.
C17_SplitAtConjunctionsAnyCase ==
    result.op = "simplify_clause" =>
        LET sentences == Split(result.simplified, ".")
        IN  result.sentences =
                Flatten([n \in 1..Len(sentences) |->
                            IF Len(Strip(sentences[n])) > 100
                            THEN StrippedNonEmpty(ReSplit(ConjunctionSplit, sentences[n], TRUE), 1)
                            ELSE IF Strip(sentences[n]) # "" THEN <<Strip(sentences[n])>>
                            ELSE <<>>],
                        1, Len(sentences))

\* C18 (as claimed): the substitutions applied to the result of a previous
\* application change nothing.
C18_SubstitutionIdempotent ==
    (result.op = "simplify_clause" /\ result.pass = 2) => result.simplified = text

\* C18 (amended): the substitutions applied to the result of a previous
\* application change nothing exactly when that result holds no mapped legal
\* phrase as a whole word; a phrase is left only where the replacement 'first
\* party' or 'second party' is followed by ' of the first part' or ' of the
\* second part'.
C18_IdempotentUnlessPhraseLeft ==
    (result.op = "simplify_clause" /\ result.pass = 2) =>
        LET left == {r \in 1..Len(simplification_rules) :
                        WholeWordOccurs(simplification_rules[r].legal, text)}
        IN  /\ (result.simplified = text) <=> (left = {})
            /\ left # {} =>
                   \E ordinal \in {"first", "second"}, part \in {"first", "second"} :
                       Contains(ordinal \o " party of the " \o part \o " part", Lower(text))

\* the first application replaced phrases and the second changes nothing
C18_Witness ==
    /\ result.op = "simplify_clause"
    /\ result.pass = 2
    /\ result.simplified = text
    /\ Contains("must act in good faith according to", text)
    /\ Contains("second party", text)

(***************************************************************************)
(* SpecEmpty: the four functions on the empty text and on texts in which   *)
(* no keyword, phrase or pattern of main.py occurs, made of at most        *)
(* MaxEmptyFrags of the fragments below.                                   *)
(***************************************************************************)

MaxEmptyFrags == 2

EmptyFragments == {" ", "\n\n", "zzz", "7, ", Repeat("q", 51)}

EmptyTexts == {Concat(f) : f \in SeqsUpTo(EmptyFragments, MaxEmptyFrags)}

InitEmpty ==
    /\ text \in EmptyTexts
    /\ result = NoResult
    /\ NoServer

NextEmpty ==
    \/ SimplifyCall
    \/ ExtractEntitiesCall
    \/ ExtractClausesCall
    \/ ClassifyCall

SpecEmpty == InitEmpty /\ [][NextEmpty]_vars

\* every one of the seven entity sequences is empty
NoEntities(entities) ==
    /\ DOMAIN entities = {"parties", "dates", "monetary_values", "obligations",
                          "legal_terms", "locations", "organizations"}
    /\ \A key \in DOMAIN entities : entities[key] = <<>>

\* C19: on the empty text simplify_clause returns ".", extract_named_entities
\* seven empty sequences, classify_document_type ('other', 0.0) and
\* extract_clauses no clause; on a text without any match the functions return
\* as well: no entity, type 'other' with confidence 0.0, the text itself
\* simplified to a non-empty string, and clauses of category 'general' without
\* entities.
C19_EmptyAndMatchFree ==
    /\ result.op = "simplify_clause" =>
           /\ text = "" => result.output = "."
           /\ result.simplified = text
           /\ result.output # ""
    /\ result.op = "extract_named_entities" => NoEntities(result.entities)
    /\ result.op = "classify" =>
           /\ result.type = "other"
           /\ result.confidence = [num |-> 0, den |-> 1]
    /\ result.op = "extract_clauses" =>
           /\ text = "" => result.clauses = <<>>
           /\ \A k \in 1..Len(result.clauses) :
                  /\ result.clauses[k].type = "general"
                  /\ NoEntities(result.clauses[k].entities)

\* classify_document_type has returned on the empty text
C19_Witness ==
    /\ text = ""
    /\ result.op = "classify"
    /\ result.type = "other"
    /\ \A p \in DOMAIN result.scores : result.scores[p].num = 0

(***************************************************************************)
(* The server, main.py:54-110 and 326-570.  Every handler is an `async     *)
(* def` without an await, so it runs to its end before the next request is *)
(* taken: one action per handler.  result.code is the HTTP status.         *)
(***************************************************************************)

MaxFiles == 1

FileNamePool == <<"a.txt", "b.txt", "c.txt">>

FileNames == {FileNamePool[i] : i \in 1..MaxFiles}

FileTexts == {"Rent due", "hello\n\nEmployee salary"}

\* an uploaded file: its name and its body, which is the page texts of a .pdf,
\* the paragraph texts of a .docx and the one decoded text of any other file;
\* parse_document raises on a file that is not readable
Files ==
    {[filename |-> n, readable |-> TRUE, body |-> <<t>>] : n \in FileNames, t \in FileTexts}
        \cup {[filename |-> n, readable |-> FALSE, body |-> <<>>] : n \in FileNames}

Questions == {"RENT?", "my salary"}

\* main.py:113-121, for a readable file
parse_document(file) ==
    IF EndsWith(file.filename, ".pdf")
    THEN Join("\n", SelectSeq(file.body, LAMBDA page : page # ""), 1)
    ELSE IF EndsWith(file.filename, ".docx")
    THEN Join("\n", file.body, 1)
    ELSE file.body[1]

\* the text in flight: what parse_document returns, "" when it raises
TextOf(file) == IF file.readable THEN parse_document(file) ELSE ""

\* main.py:123-124
split_text(txt) == Split(txt, "\n\n")

\* str.split(): the maximal runs of non-whitespace characters
Words(s) ==
    LET n == Len(s)
        IsRun(i, j) ==
            /\ i <= j
            /\ \A k \in i..j : ~IsSpace(Char(s, k))
            /\ i = 1 \/ IsSpace(Char(s, i - 1))
            /\ j = n \/ IsSpace(Char(s, j + 1))
    IN  {SubSeq(s, p[1], p[2]) : p \in {q \in (1..n) \X (1..n) : IsRun(q[1], q[2])}}

\* s[:n]
Prefix(s, n) == SubSeq(s, 1, IF Len(s) < n THEN Len(s) ELSE n)

\* str(i) for one digit
Decimal(i) == SubSeq("0123456789", i + 1, i + 1)

\* main.py:336
StoredContent(txt) == IF Len(txt) > 1000 THEN Prefix(txt, 1000) \o "..." ELSE txt

\* main.py:333, 348, 438 without the test of the names registered
Register_Always(entry) == Append(processed_documents, entry)

\* the registry keeping the last entry written for a name
Register_LastWriter(entry) ==
    IF \E i \in DOMAIN processed_documents : processed_documents[i].name = entry.name
    THEN [i \in DOMAIN processed_documents |->
             IF processed_documents[i].name = entry.name THEN entry
             ELSE processed_documents[i]]
    ELSE Append(processed_documents, entry)

\* main.py:332-333, 347-348, 437-438: appended unless the name is registered
Register(entry) ==
    IF \E i \in DOMAIN processed_documents : processed_documents[i].name = entry.name
    THEN processed_documents
    ELSE Append(processed_documents, entry)

\* main.py:344, one vector per chunk; the embedding values are left out
NewVectors(file) ==
    LET chunks == split_text(parse_document(file))
    IN  {[id |-> file.filename \o "-" \o Decimal(i - 1), text |-> chunks[i],
          filename |-> file.filename] : i \in 1..Len(chunks)}

\* main.py:345, index.upsert: a vector replaces the stored one of the same id
Upsert(new) == {v \in vectors : \A w \in new : w.id # v.id} \cup new

\* main.py:379, index.query(top_k=k): the k nearest stored vectors, nearest
\* first; which ones are nearest is the embedding model's business
TopK(k) ==
    LET m == IF Cardinality(vectors) < k THEN Cardinality(vectors) ELSE k
    IN  {q \in [1..m -> vectors] : \A i, j \in 1..m : q[i] = q[j] => i = j}

\* sum(len(v) for v in entities.values())
TotalEntities(entities) ==
    Len(entities.parties) + Len(entities.dates) + Len(entities.monetary_values)
        + Len(entities.obligations) + Len(entities.legal_terms)
        + Len(entities.locations) + Len(entities.organizations)

\* the history of classify_document_type: its result for txt, with the size
\* of the registry at the first call that gave this result
Classified(txt, r) ==
    IF \E h \in classified :
           h.text = txt /\ h.type = r.type /\ h.confidence = r.confidence
    THEN classified
    ELSE classified \cup {[text |-> txt, type |-> r.type, confidence |-> r.confidence,
                           documents |-> Len(processed_documents)]}

\* main.py:538-570
get_document_suggestions(doc_type) ==
    LET suggestions ==
            [nda |-> <<"Review confidentiality scope and duration",
                       "Check permitted disclosures and exceptions",
                       "Verify return/destruction of confidential information clauses">>,
             employment_contract |->
                     <<"Review compensation and benefits details",
                       "Check termination clauses and notice periods",
                       "Verify non-compete and intellectual property assignments">>,
             service_agreement |->
                     <<"Review scope of work and deliverables",
                       "Check payment terms and schedule",
                       "Verify liability limitations and indemnification">>,
             lease_agreement |->
                     <<"Review rent amount and escalation clauses",
                       "Check maintenance and repair responsibilities",
                       "Verify termination and renewal options">>,
             other |-> <<"Review all key terms and conditions",
                         "Check liability and indemnification clauses",
                         "Verify governing law and dispute resolution">>]
    IN  IF doc_type \in DOMAIN suggestions THEN suggestions[doc_type]
        ELSE suggestions["other"]

\* main.py:54-110 with the exception of main.py:98 leaving load_models
Started_Raising(embedding_ok, listed, exists, gcp_ok, aws_ok, opened) ==
    LET attempts == IF ~embedding_ok \/ ~listed \/ exists THEN <<>>
                    ELSE IF gcp_ok THEN <<[cloud |-> "gcp", ok |-> TRUE]>>
                    ELSE <<[cloud |-> "gcp", ok |-> FALSE], [cloud |-> "aws", ok |-> aws_ok]>>
        failed == IF ~embedding_ok THEN "embedding"
                  ELSE IF ~listed THEN "connect"
                  ELSE IF ~exists /\ ~gcp_ok /\ ~aws_ok THEN "create"
                  ELSE IF ~opened THEN "open"
                  ELSE "none"
    IN  [index |-> IF failed \in {"embedding", "create"} THEN "unset"
                   ELSE IF failed = "none" THEN "Index" ELSE "None",
         result |-> [op |-> "load_models", completed |-> failed \notin {"embedding", "create"},
                     attempts |-> attempts, failed |-> failed]]

\* main.py:54-110, what startup leaves.  attempts lists the create_index
\* calls made with their outcome, failed names the step that raised:
\* "embedding" (main.py:59), "connect" (main.py:72-76), "create" (main.py:98),
\* "open" (main.py:102), or "none"
Started(embedding_ok, listed, exists, gcp_ok, aws_ok, opened) ==
    LET attempts == IF ~embedding_ok \/ ~listed \/ exists THEN <<>>
                    ELSE IF gcp_ok THEN <<[cloud |-> "gcp", ok |-> TRUE]>>
                    ELSE <<[cloud |-> "gcp", ok |-> FALSE], [cloud |-> "aws", ok |-> aws_ok]>>
        failed == IF ~embedding_ok THEN "embedding"
                  ELSE IF ~listed THEN "connect"
                  ELSE IF ~exists /\ ~gcp_ok /\ ~aws_ok THEN "create"
                  ELSE IF ~opened THEN "open"
                  ELSE "none"
    IN  [index |-> IF failed = "embedding" THEN "unset"
                   ELSE IF failed = "none" THEN "Index" ELSE "None",
         result |-> [op |-> "load_models", completed |-> failed # "embedding",
                     attempts |-> attempts, failed |-> failed]]

\* main.py:54-110, startup.  The outcomes of the calls to the embedding model
\* and to Pinecone are inputs.
load_models ==
    /\ index = "unset"
    /\ result.op = "none"
    /\ \E embedding_ok, listed, exists, gcp_ok, aws_ok, opened \in BOOLEAN :
         /\ index' = Started(embedding_ok, listed, exists, gcp_ok, aws_ok, opened).index
         /\ result' = Started(embedding_ok, listed, exists, gcp_ok, aws_ok, opened).result
    /\ UNCHANGED <<text, processed_documents, vectors, classified>>

\* main.py:326-352 with the file registered before it is encoded and upserted
upload_document_endpoint_RegisterFirst ==
    /\ index # "unset"
    /\ \E file \in Files, indexed \in BOOLEAN :
         /\ text' = TextOf(file)
         /\ IF ~file.readable
            THEN /\ result' = [op |-> "upload", code |-> 500]
                 /\ UNCHANGED server
            ELSE IF index = "None"
            THEN /\ processed_documents' =
                        Register([name |-> file.filename,
                                  status |-> "Processed (Local storage - Pinecone unavailable)",
                                  content |-> StoredContent(parse_document(file))])
                 /\ result' = [op |-> "upload", code |-> 200, filename |-> file.filename,
                               status |-> "Stored locally - Pinecone unavailable"]
                 /\ UNCHANGED <<index, vectors, classified>>
            ELSE /\ processed_documents' =
                        Register([name |-> file.filename, status |-> "Processed"])
                 /\ IF indexed
                    THEN /\ vectors' = Upsert(NewVectors(file))
                         /\ result' = [op |-> "upload", code |-> 200,
                                       filename |-> file.filename,
                                       status |-> "Successfully indexed."]
                    ELSE /\ vectors' = vectors
                         /\ result' = [op |-> "upload", code |-> 500]
                 /\ UNCHANGED <<index, classified>>

\* main.py:326-352; indexed: whether encode and upsert went through
upload_document_endpoint ==
    /\ index # "unset"
    /\ \E file \in Files, indexed \in BOOLEAN :
         /\ text' = TextOf(file)
         /\ IF ~file.readable \/ (index # "None" /\ ~indexed)
            THEN /\ result' = [op |-> "upload", code |-> 500]
                 /\ UNCHANGED server
            ELSE IF index = "None"
            THEN /\ processed_documents' =
                        Register([name |-> file.filename,
                                  status |-> "Processed (Local storage - Pinecone unavailable)",
                                  content |-> StoredContent(parse_document(file))])
                 /\ result' = [op |-> "upload", code |-> 200, filename |-> file.filename,
                               status |-> "Stored locally - Pinecone unavailable"]
                 /\ UNCHANGED <<index, vectors, classified>>
            ELSE /\ vectors' = Upsert(NewVectors(file))
                 /\ processed_documents' =
                        Register([name |-> file.filename, status |-> "Processed"])
                 /\ result' = [op |-> "upload", code |-> 200, filename |-> file.filename,
                               status |-> "Successfully indexed."]
                 /\ UNCHANGED <<index, classified>>

\* main.py:359-376, the answer from the stored contents
LocalAnswer(question) ==
    LET query_lower == Lower(question)
        Matches(doc) ==
            /\ "content" \in DOMAIN doc
            /\ \E word \in Words(query_lower) : Contains(word, Lower(doc.content))
        matching_docs == SelectSeq(processed_documents, Matches)
        shown == IF Len(matching_docs) < 2 THEN Len(matching_docs) ELSE 2
    IN  IF matching_docs # <<>>
        THEN "Based on your uploaded documents (Pinecone unavailable, using simple text matching):\n\n"
             \o Join("", [i \in 1..shown |->
                             Decimal(i) \o ". From " \o matching_docs[i].name \o ": "
                                 \o Prefix(matching_docs[i].content, 200) \o "...\n\n"], 1)
             \o "This information relates to your question: '" \o question \o "'"
        ELSE "No relevant documents found using simple text matching. Note: Pinecone vector search is currently unavailable."

\* main.py:385-396, the answer from the matches of the index
IndexAnswer(question, matches) ==
    LET relevant_chunks == [i \in 1..Len(matches) |-> matches[i].text]
        shown == IF Len(relevant_chunks) < 2 THEN Len(relevant_chunks) ELSE 2
    IN  IF Len(relevant_chunks) > 0
        THEN "Based on your legal documents, here's the relevant information:\n\n"
             \o Join("", [i \in 1..shown |->
                             Decimal(i) \o ". " \o Strip(relevant_chunks[i]) \o "\n\n"], 1)
             \o "This information was found in response to your question: '"
             \o question \o "'"
        ELSE "I couldn't find relevant information in your documents for this question. Please try rephrasing or ensure the document contains information about this topic."

\* main.py:354-400; searched: whether encode and index.query went through
query_endpoint ==
    /\ index # "unset"
    /\ \E question \in Questions, searched \in BOOLEAN :
         /\ text' = question
         /\ IF index = "None"
            THEN result' = [op |-> "query", code |-> 200, question |-> question,
                            answer |-> LocalAnswer(question)]
            ELSE IF ~searched
            THEN result' = [op |-> "query", code |-> 500]
            ELSE \E matches \in TopK(4) :
                     result' = [op |-> "query", code |-> 200, question |-> question,
                                answer |-> IndexAnswer(question, matches)]
    /\ UNCHANGED server

\* main.py:402-404
list_documents_endpoint ==
    /\ index # "unset"
    /\ text' = ""
    /\ result' = [op |-> "documents", code |-> 200, documents |-> processed_documents]
    /\ UNCHANGED server

\* main.py:426-434 with the clauses taken in reverse order
SimplifiedClauses_Reversed(extracted_clauses) ==
    [i \in 1..Len(extracted_clauses) |->
        [original |-> extracted_clauses[Len(extracted_clauses) + 1 - i].text,
         simplified |-> extracted_clauses[Len(extracted_clauses) + 1 - i].simplified,
         type |-> extracted_clauses[Len(extracted_clauses) + 1 - i].type,
         entities |-> extracted_clauses[Len(extracted_clauses) + 1 - i].entities]]

\* main.py:426-434
SimplifiedClauses(extracted_clauses) ==
    [i \in 1..Len(extracted_clauses) |->
        [original |-> extracted_clauses[i].text,
         simplified |-> extracted_clauses[i].simplified,
         type |-> extracted_clauses[i].type,
         entities |-> extracted_clauses[i].entities]]

\* main.py:436-456, the analysis stored and returned
AnalysisDone(file, txt, classification, extracted_clauses, all_entities) ==
    /\ processed_documents' =
           Register([name |-> file.filename,
                     status |-> "Analyzed",
                     document_type |-> classification.type,
                     confidence |-> classification.confidence,
                     clauses_count |-> Len(extracted_clauses),
                     entities_count |-> TotalEntities(all_entities)])
    /\ classified' = Classified(txt, classification)
    /\ result' = [op |-> "analyze-document", code |-> 200,
                  filename |-> file.filename,
                  document_type |-> classification.type,
                  confidence |-> classification.confidence,
                  simplified_clauses |-> SimplifiedClauses(extracted_clauses),
                  extracted_entities |-> all_entities,
                  clauses |-> extracted_clauses]

\* main.py:410-459 returning what was computed before the failure
AnalyzeFile_PartialResult(file) ==
    /\ text' = TextOf(file)
    /\ IF ~file.readable
       THEN /\ result' = [op |-> "analyze-document", code |-> 200,
                          filename |-> file.filename]
            /\ UNCHANGED server
       ELSE /\ AnalysisDone(file, parse_document(file),
                            classify_document_type(parse_document(file)),
                            extract_clauses(parse_document(file)),
                            extract_named_entities(parse_document(file)))
            /\ UNCHANGED <<index, vectors>>

\* main.py:410-459, the handler on one uploaded file
AnalyzeFile(file) ==
    /\ text' = TextOf(file)
    /\ IF ~file.readable
       THEN /\ result' = [op |-> "analyze-document", code |-> 500]
            /\ UNCHANGED server
       ELSE /\ AnalysisDone(file, parse_document(file),
                            classify_document_type(parse_document(file)),
                            extract_clauses(parse_document(file)),
                            extract_named_entities(parse_document(file)))
            /\ UNCHANGED <<index, vectors>>

\* main.py:408-459
analyze_document_endpoint ==
    /\ index # "unset"
    /\ \E file \in Files : AnalyzeFile(file)

\* main.py:461-474 answering from the previous simplification when there is one
simplify_clause_endpoint_Cached ==
    /\ index # "unset"
    /\ \E request \in FileTexts :
         /\ text' = request
         /\ result' = [op |-> "simplify-clause", code |-> 200, original |-> request,
                       simplified |-> IF result.op = "simplify-clause"
                                      THEN result.simplified
                                      ELSE simplify_clause(request),
                       entities |-> extract_named_entities(request)]
    /\ UNCHANGED server

\* main.py:461-474
simplify_clause_endpoint ==
    /\ index # "unset"
    /\ \E request \in FileTexts :
         /\ text' = request
         /\ result' = [op |-> "simplify-clause", code |-> 200, original |-> request,
                       simplified |-> simplify_clause(request),
                       entities |-> extract_named_entities(request)]
    /\ UNCHANGED server

\* main.py:483-487
EntitiesFound(request, entities) ==
    [op |-> "extract-entities", code |-> 200, text |-> request, entities |-> entities,
     total_entities |-> TotalEntities(entities)]

\* main.py:476-489
extract_entities_endpoint ==
    /\ index # "unset"
    /\ \E request \in FileTexts :
         /\ text' = request
         /\ result' = EntitiesFound(request, extract_named_entities(request))
    /\ UNCHANGED server

\* main.py:499-505, the clauses of each category that occurs, in clause order
ClauseCategories(clauses) ==
    [category \in {clauses[i].type : i \in DOMAIN clauses} |->
        SelectSeq(clauses, LAMBDA c : c.type = category)]

\* main.py:507-513
ClausesFound(request, clauses) ==
    [op |-> "extract-clauses", code |-> 200, text |-> request,
     clauses |-> clauses,
     total_clauses |-> Len(clauses),
     categories |-> ClauseCategories(clauses),
     category_counts |->
         [category \in {clauses[i].type : i \in DOMAIN clauses} |->
             Len(SelectSeq(clauses, LAMBDA c : c.type = category))]]

\* main.py:491-515
extract_clauses_endpoint ==
    /\ index # "unset"
    /\ \E request \in FileTexts :
         /\ text' = request
         /\ result' = ClausesFound(request, extract_clauses(request))
    /\ UNCHANGED server

\* main.py:517-536
classify_document_endpoint ==
    /\ index # "unset"
    /\ \E file \in Files :
         /\ text' = TextOf(file)
         /\ IF ~file.readable
            THEN /\ result' = [op |-> "classify-document", code |-> 500]
                 /\ UNCHANGED server
            ELSE LET txt == parse_document(file)
                     classification == classify_document_type(txt)
                     confidence == classification.confidence
                 IN  /\ classified' = Classified(txt, classification)
                     /\ result' =
                            [op |-> "classify-document", code |-> 200,
                             filename |-> file.filename,
                             document_type |-> classification.type,
                             confidence |-> confidence,
                             certainty |->
                                 IF FracLess([num |-> 1, den |-> 2], confidence) THEN "high"
                                 ELSE IF FracLess([num |-> 1, den |-> 5], confidence)
                                 THEN "medium"
                                 ELSE "low",
                             suggested_actions |->
                                 get_document_suggestions(classification.type)]
                     /\ UNCHANGED <<processed_documents, index, vectors>>

\* the module as imported: nothing registered, startup not yet run
Init ==
    /\ text = ""
    /\ result = NoResult
    /\ processed_documents = <<>>
    /\ index = "unset"
    /\ vectors = {}
    /\ classified = {}

Next ==
    \/ load_models
    \/ upload_document_endpoint
    \/ query_endpoint
    \/ list_documents_endpoint
    \/ analyze_document_endpoint
    \/ simplify_clause_endpoint
    \/ extract_entities_endpoint
    \/ extract_clauses_endpoint
    \/ classify_document_endpoint

Spec == Init /\ [][Next]_vars

MaxAnalysisParagraphs == 3

AnalysisParagraphs ==
    {"Damages and liability for loss or harm: see Payment.",
     "The Tenant shall pay rent of $500.00 to the Landlord.",
     "Employee salary",
     "Rent due",
     "hello"}

AnalysisFiles ==
    {[filename |-> FileNamePool[1], readable |-> TRUE, body |-> <<Join("\n\n", ps, 1)>>] :
        ps \in SeqsUpTo(AnalysisParagraphs, MaxAnalysisParagraphs) \ {<<>>}}
        \cup {[filename |-> FileNamePool[1], readable |-> FALSE, body |-> <<>>]}

\* the server started without a Pinecone index, nothing registered yet
InitAnalysis ==
    /\ text = ""
    /\ result = NoResult
    /\ NoServer

\* the first request to /analyze-document/
AnalyzeCall ==
    /\ result.op = "none"
    /\ \E file \in AnalysisFiles : AnalyzeFile(file)

NextAnalysis == AnalyzeCall

SpecAnalysis == InitAnalysis /\ [][NextAnalysis]_vars

\* C21: in the result of a successful analysis, simplified_clauses has the
\* length and order of clauses, and its i-th entry carries the i-th clause's
\* text as original, its simplified text, its category and its entities; the
\* clauses are those of the parsed text, and the document type, the confidence
\* and the document-wide entities are those computed from the whole parsed text.
C21_SimplifiedClausesReproject ==
    result.op = "analyze-document" /\ result.code = 200 =>
        /\ Len(result.simplified_clauses) = Len(result.clauses)
        /\ \A i \in 1..Len(result.clauses) :
               /\ DOMAIN result.simplified_clauses[i] =
                      {"original", "simplified", "type", "entities"}
               /\ result.simplified_clauses[i].original = result.clauses[i].text
               /\ result.simplified_clauses[i].simplified = result.clauses[i].simplified
               /\ result.simplified_clauses[i].type = result.clauses[i].type
               /\ result.simplified_clauses[i].entities = result.clauses[i].entities
        /\ result.clauses = extract_clauses(text)
        /\ result.document_type = classify_document_type(text).type
        /\ result.confidence = classify_document_type(text).confidence
        /\ result.extracted_entities = extract_named_entities(text)

\* an analysis of a document of two clauses of different categories with a
\* short paragraph between them: the document-wide entities are those of
\* neither clause, and the short paragraph counts for the classification only
C21_Witness ==
    /\ result.op = "analyze-document"
    /\ result.code = 200
    /\ Len(result.clauses) = 2
    /\ result.simplified_clauses[1].original # result.simplified_clauses[2].original
    /\ result.simplified_clauses[1].type # result.simplified_clauses[2].type
    /\ \A i \in 1..2 : result.clauses[i].entities # result.extracted_entities
    /\ result.clauses[2].id = 3
    /\ result.document_type = "lease_agreement"

\* C22: the combined analysis is all-or-nothing: a call either fails with an
\* error (HTTP 500) that carries none of the outputs, or returns the document
\* type with its confidence, the clauses with their summary list and the
\* entities all together; a call whose parsing failed is a failed call, and a
\* result with some outputs missing is never returned.
C22_AllOrNothing ==
    result.op = "analyze-document" =>
        /\ result.code \in {200, 500}
        /\ result.code = 500 => DOMAIN result = {"op", "code"}
        /\ result.code = 200 =>
               DOMAIN result = {"op", "code", "filename", "document_type", "confidence",
                                "simplified_clauses", "extracted_entities", "clauses"}
        /\ text = "" => result.code = 500

\* the analysis of a file that could not be parsed has failed
C22_Witness ==
    /\ result.op = "analyze-document"
    /\ result.code = 500
    /\ text = ""
    /\ processed_documents = <<>>

C24_ListedIsQueryable ==
    \A i \in DOMAIN processed_documents :
        IF index = "None"
        THEN "content" \in DOMAIN processed_documents[i]
        ELSE \E v \in vectors : v.filename = processed_documents[i].name

\* C25: after any sequence of upload and analyze-document calls, in either
\* Pinecone mode, processed_documents holds no two entries with the same name.
C25_NamesAreUnique ==
    \A i, j \in DOMAIN processed_documents :
        processed_documents[i].name = processed_documents[j].name => i = j

\* a file analyzed first has then been uploaded and indexed under the same
\* name: the upload succeeded and the registry still holds the one entry
C25_Witness ==
    /\ result.op = "upload"
    /\ result.code = 200
    /\ index = "Index"
    /\ Len(processed_documents) = 1
    /\ processed_documents[1].name = result.filename
    /\ processed_documents[1].status = "Analyzed"

\* C26: processed_documents is append-only and first-writer-wins: no call
\* removes or changes an entry, so its length never decreases and the entry of
\* a name keeps the fields of the first successful upload or analysis of that
\* name; analyzing a file that is registered leaves the registry as it is.
C26_AppendOnlyFirstWriterWins ==
    [][/\ Len(processed_documents') >= Len(processed_documents)
       /\ \A i \in DOMAIN processed_documents :
              processed_documents'[i] = processed_documents[i]
       /\ \A i \in DOMAIN processed_documents :
              result'.op \in {"upload", "analyze-document"} /\ result'.code = 200
                  /\ result'.filename = processed_documents[i].name =>
                      processed_documents' = processed_documents
      ]_vars

\* a file uploaded first has then been analyzed: its entry has the status of
\* the upload and none of the fields of an analysis
C26_Witness ==
    /\ result.op = "analyze-document"
    /\ result.code = 200
    /\ Len(processed_documents) = 1
    /\ processed_documents[1].name = result.filename
    /\ processed_documents[1].status = "Processed"
    /\ DOMAIN processed_documents[1] = {"name", "status"}

\* C27: an upload or analyze-document call that answers HTTP 500 leaves
\* processed_documents as it was before the call.
C27_FailureLeavesRegistry ==
    [][result'.op \in {"upload", "analyze-document"} /\ result'.code = 500 =>
           processed_documents' = processed_documents]_vars

\* an upload was parsed, then failed while it was encoded and upserted, and
\* is not registered
C27_Witness ==
    /\ result.op = "upload"
    /\ result.code = 500
    /\ text # ""
    /\ index = "Index"
    /\ processed_documents = <<>>

(***************************************************************************)
(* SpecKeywords: extract_clauses on each keyword of clause_types standing  *)
(* alone in a paragraph, followed by filler that makes the paragraph long  *)
(* enough to be a clause.                                                  *)
(***************************************************************************)

KeywordParagraphs ==
    {[category |-> clause_types[c].name,
      keyword |-> clause_types[c].keywords[k],
      paragraph |-> clause_types[c].keywords[k] \o " " \o Repeat(filler, ShortParagraph)] :
        <<c, k, filler>> \in {t \in (1..Len(clause_types)) \X (1..6) \X {"x", "-"} :
                                 t[2] <= Len(clause_types[t[1]].keywords)}}

InitKeywords ==
    /\ text \in {p.paragraph : p \in KeywordParagraphs}
    /\ result = NoResult
    /\ NoServer

SpecKeywords == InitKeywords /\ [][NextClauses]_vars

C30_StartupSurvivesPinecone ==
    [][/\ index # "unset" => index' = index
       /\ result'.op = "load_models" =>
              /\ result'.completed <=> result'.failed # "embedding"
              /\ result'.completed => index' \in {"None", "Index"}
              /\ index' = "Index" <=> result'.failed = "none"
              /\ index' = "None" <=> result'.failed \in {"connect", "create", "open"}
              /\ Len(result'.attempts) <= 2
              /\ Len(result'.attempts) >= 1 => result'.attempts[1].cloud = "gcp"
              /\ Len(result'.attempts) = 2 =>
                     ~result'.attempts[1].ok /\ result'.attempts[2].cloud = "aws"
              /\ result'.failed = "create" <=>
                     Len(result'.attempts) = 2 /\ ~result'.attempts[2].ok
              /\ result'.failed = "none" /\ result'.attempts # <<>> =>
                     result'.attempts[Len(result'.attempts)].ok
       /\ result'.op = "upload" /\ result'.code = 200 =>
              /\ index' = "None" <=>
                     result'.status = "Stored locally - Pinecone unavailable"
              /\ index' = "None" => vectors' = vectors
       /\ result'.op = "query" /\ result'.code = 200 =>
              (index' = "None" <=> Contains("simple text matching", result'.answer))
      ]_vars

\* startup found no index, failed to create one on GCP and then on AWS, and
\* completed with index None
C30_Witness ==
    /\ result.op = "load_models"
    /\ result.completed
    /\ result.failed = "create"
    /\ result.attempts = <<[cloud |-> "gcp", ok |-> FALSE], [cloud |-> "aws", ok |-> FALSE]>>
    /\ index = "None"

====
